---- MODULE Spec2Model ----
(***************************************************************************)
(* OddsParser (src/core/market_extraction/odds_parser.py): the market odds *)
(* extractor, the bookmaker identifier and the odds-history modal parser.  *)
(*                                                                         *)
(* Texts are sequences of one-character strings, so that the regular       *)
(* expressions, str.lower, strip and the parsers of the code are computed  *)
(* on the characters.  A markup element is a record                        *)
(*   [tag, class, attrs, title, alt, anchors, text]                        *)
(* where class is the list of class tokens (as the tree builder stores a   *)
(* class attribute), attrs the set of attributes present, anchors the      *)
(* texts of the <a> children and text the element's own trailing text.     *)
(* A block is [class, elems]: a <div> and its descendants in document      *)
(* order.  An optional value (None in the code) is <<>>, a present value v *)
(* is <<v>>.  A dict is a function from its keys.                          *)
(***************************************************************************)
EXTENDS Integers, Sequences, FiniteSets, TLC

VARIABLES
    pc,            \* position of the running call
    doc,           \* parse_market_odds: html_content, the <div> elements of the document
    period,        \* parse_market_odds: period
    odds_labels,   \* parse_market_odds: odds_labels
    target,        \* parse_market_odds: target_bookmaker (<<>> is None)
    blocks,        \* parse_market_odds: bookmaker_blocks, as indices into doc
    bi,            \* parse_market_odds: position of the for loop in blocks
    bookmaker_name, \* parse_market_odds: bookmaker_name of the current block
    odds_data,     \* parse_market_odds: odds_data
    block,         \* _extract_bookmaker_name: its argument
    name_out,      \* _extract_bookmaker_name: its return value (<<>> before the return)
    timestamps,    \* parse_odds_history_modal: texts of the selected timestamp elements
    odds_values,   \* parse_odds_history_modal: texts of the selected value elements
    opening,       \* parse_odds_history_modal: the opening-odds region of the modal
    year,          \* datetime.now(UTC).year
    k,             \* parse_odds_history_modal: position of the zip loop
    time_text,     \* parse_odds_history_modal: time_text, the stripped text being parsed
    formatted_time, \* parse_odds_history_modal: formatted_time of the current pair
    odds_history,  \* parse_odds_history_modal: odds_history
    result         \* parse_odds_history_modal: its return value

vars == <<pc, doc, period, odds_labels, target, blocks, bi, bookmaker_name, odds_data,
          block, name_out, timestamps, odds_values, opening, year, k,
          time_text, formatted_time, odds_history, result>>

marketVars == <<doc, period, odds_labels, target, blocks, bi, bookmaker_name, odds_data>>
identVars == <<block, name_out>>
historyVars == <<timestamps, odds_values, opening, year, k, time_text,
                 formatted_time, odds_history, result>>

-----------------------------------------------------------------------------
(* Bounds of the model. *)

MaxElems == 3
MaxBlocks == 2
MaxLabels == 2
MaxRows == 2

-----------------------------------------------------------------------------
(* Texts. *)

Min(a, b) == IF a <= b THEN a ELSE b

Upper == <<"A","B","C","D","E","F","G","H","I","J","K","L","M","N","O","P","Q","R","S","T","U","V","W","X","Y","Z">>
LowerLetters == <<"a","b","c","d","e","f","g","h","i","j","k","l","m","n","o","p","q","r","s","t","u","v","w","x","y","z">>

Digits == {"0","1","2","3","4","5","6","7","8","9"}

IsSpace(c) == c = " "

\* str.lower()
LowerChar(c) ==
    IF \E n \in 1..26 : Upper[n] = c
    THEN LowerLetters[CHOOSE n \in 1..26 : Upper[n] = c]
    ELSE c

Lower(t) == [n \in 1..Len(t) |-> LowerChar(t[n])]

\* sub occurs in t at position p
OccursAt(t, sub, p) ==
    /\ p >= 1
    /\ p + Len(sub) - 1 <= Len(t)
    /\ \A n \in 1..Len(sub) : t[p + n - 1] = sub[n]

\* re.search of a literal pattern, and the `in` operator on strings
Contains(t, sub) == \E p \in 1..(Len(t) - Len(sub) + 1) : OccursAt(t, sub, p)

\* re.search(a \s* b, t)
ContainsSpaced(t, a, b) ==
    \E p \in 1..(Len(t) + 1) :
        /\ OccursAt(t, a, p)
        /\ \E q \in (p + Len(a))..(Len(t) + 1) :
              /\ \A n \in (p + Len(a))..(q - 1) : IsSpace(t[n])
              /\ OccursAt(t, b, q)

\* str.strip(), as get_text(strip=True) applies it to each string
Strip(t) ==
    IF \A n \in 1..Len(t) : IsSpace(t[n])
    THEN <<>>
    ELSE LET first == CHOOSE n \in 1..Len(t) :
                          ~IsSpace(t[n]) /\ \A m \in 1..(n - 1) : IsSpace(t[m])
             last == CHOOSE n \in 1..Len(t) :
                          ~IsSpace(t[n]) /\ \A m \in (n + 1)..Len(t) : IsSpace(t[m])
         IN  SubSeq(t, first, last)

RECURSIVE Concat(_)
Concat(ts) == IF ts = <<>> THEN <<>> ELSE Head(ts) \o Concat(Tail(ts))

\* " ".join(classes)
RECURSIVE JoinClass(_)
JoinClass(cls) ==
    IF cls = <<>> THEN <<>>
    ELSE IF Len(cls) = 1 THEN cls[1]
    ELSE cls[1] \o <<" ">> \o JoinClass(Tail(cls))

\* Sequences over S of length at most n
SeqUpTo(n, S) == UNION {[1..m -> S] : m \in 0..n}

\* The elements of a finite set of integers, in increasing order.
RECURSIVE Ascending(_)
Ascending(S) ==
    IF S = {} THEN <<>>
    ELSE LET m == CHOOSE x \in S : \A y \in S : x <= y
         IN  <<m>> \o Ascending(S \ {m})

-----------------------------------------------------------------------------
(* The tree builder's matching of a class attribute. *)

\* class_=re.compile(pat) with a literal pat: some class token matches, or
\* the space-joined class string does
ClassSearch(cls, pat) ==
    \/ \E n \in 1..Len(cls) : Contains(cls[n], pat)
    \/ Contains(JoinClass(cls), pat)

\* class_=re.compile("^" + pat) with a literal pat
ClassStartsWith(cls, pat) ==
    \/ \E n \in 1..Len(cls) : OccursAt(cls[n], pat, 1)
    \/ OccursAt(JoinClass(cls), pat, 1)

\* class_="token": some class token equals it, or the whole class string does
ClassIs(cls, tok) ==
    \/ \E n \in 1..Len(cls) : cls[n] = tok
    \/ JoinClass(cls) = tok

\* re.search(a .* b .* c, t)
ContainsInOrder(t, a, b, c) ==
    \E p \in 1..(Len(t) + 1) :
        /\ OccursAt(t, a, p)
        /\ \E q \in (p + Len(a))..(Len(t) + 1) :
              /\ OccursAt(t, b, q)
              /\ \E r \in (q + Len(b))..(Len(t) + 1) : OccursAt(t, c, r)

ClassSearchInOrder(cls, a, b, c) ==
    \/ \E n \in 1..Len(cls) : ContainsInOrder(cls[n], a, b, c)
    \/ ContainsInOrder(JoinClass(cls), a, b, c)
-----------------------------------------------------------------------------
(* _extract_bookmaker_name *)

\* bookmaker_patterns: the patterns that are literal fragments
bookmaker_patterns ==
    {
      <<"b","e","t","3","6","5">>,
      <<"b","e","t","m","g","m">>,
      <<"f","a","n","d","u","e","l">>,
      <<"d","r","a","f","t","k","i","n","g","s">>,
      <<"c","a","e","s","a","r","s">>,
      <<"p","o","i","n","t","s","b","e","t">>,
      <<"b","e","t","r","i","v","e","r","s">>,
      <<"u","n","i","b","e","t">>,
      <<"l","a","d","b","r","o","k","e","s">>,
      <<"b","e","t","f","a","i","r">>,
      <<"p","i","n","n","a","c","l","e">>,
      <<"b","o","v","a","d","a">>,
      <<"b","e","t","o","n","l","i","n","e">>,
      <<"m","y","b","o","o","k","i","e">>,
      <<"b","e","t","w","a","y">>,
      <<"8","8","8">>,
      <<"b","w","i","n">>,
      <<"b","e","t","f","r","e","d">>,
      <<"s","p","o","r","t","s","b","e","t">>,
      <<"t","a","b">>,
      <<"n","e","d","s">>,
      <<"b","e","t","s","s","o","n">>,
      <<"1","0","b","e","t">>,
      <<"1","x","b","e","t">>,
      <<"m","e","l","b","e","t">>,
      <<"2","2","b","e","t">>,
      <<"s","t","a","k","e">>,
      <<"c","l","o","u","d","b","e","t">>
    }

\* bookmaker_patterns: william\s*hill and paddy\s*power
bookmaker_patterns_spaced ==
    { <<<<"w","i","l","l","i","a","m">>, <<"h","i","l","l">>>>,
      <<<<"p","a","d","d","y">>, <<"p","o","w","e","r">>>> }

\* the suffixes of looks_like_bookmaker
bookmaker_suffixes ==
    { <<".","c","o","m">>,
      <<".","u","s">>,
      <<".","u","k">>,
      <<".","e","u">>,
      <<"b","e","t">>,
      <<"b","o","o","k">>,
      <<"w","a","g","e","r">> }

looks_like_bookmaker(name) ==
    IF name = <<>> THEN FALSE
    ELSE LET name_lower == Lower(name)
         IN  \/ \E pat \in bookmaker_patterns : Contains(name_lower, pat)
             \/ \E pat \in bookmaker_patterns_spaced :
                    ContainsSpaced(name_lower, pat[1], pat[2])
             \/ \E suffix \in bookmaker_suffixes : Contains(name_lower, suffix)

Unknown == <<"U","n","k","n","o","w","n">>
BookmakerLogo == <<"b","o","o","k","m","a","k","e","r","-","l","o","g","o">>
HeightContent == <<"h","e","i","g","h","t","-","c","o","n","t","e","n","t">>

IsImg(el) == el.tag = "img"
IsP(el) == el.tag = "p"
IsDiv(el) == el.tag = "div"

\* block.find("img", class_="bookmaker-logo"): the first such image, 0 if none
LogoImg(b) ==
    LET S == {n \in 1..Len(b.elems) :
                 IsImg(b.elems[n]) /\ ClassIs(b.elems[n].class, BookmakerLogo)}
    IN  IF S = {} THEN 0 ELSE CHOOSE n \in S : \A m \in S : n <= m

\* block.find_all("img", alt=True)
AltImgs(b) ==
    Ascending({n \in 1..Len(b.elems) :
                  IsImg(b.elems[n]) /\ "alt" \in b.elems[n].attrs})

\* block.find_all("p", class_=re.compile(r"height-content"))
HeightContentPs(b) ==
    Ascending({n \in 1..Len(b.elems) :
                  IsP(b.elems[n]) /\ ClassSearch(b.elems[n].class, HeightContent)})

\* Method 2: the first image whose alt text looks like a bookmaker, 0 if none
AltMatch(b) ==
    LET imgs == AltImgs(b)
        S == {n \in 1..Len(imgs) :
                 /\ b.elems[imgs[n]].alt # <<>>
                 /\ looks_like_bookmaker(b.elems[imgs[n]].alt)}
    IN  IF S = {} THEN 0 ELSE imgs[CHOOSE n \in S : \A m \in S : n <= m]

\* p.find("a").get_text(strip=True)
AnchorName(el) == Strip(el.anchors[1])

\* Method 3: the first paragraph whose first anchor looks like a bookmaker,
\* 0 if none
AnchorMatch(b) ==
    LET ps == HeightContentPs(b)
        S == {n \in 1..Len(ps) :
                 /\ b.elems[ps[n]].anchors # <<>>
                 /\ AnchorName(b.elems[ps[n]]) # <<>>
                 /\ looks_like_bookmaker(AnchorName(b.elems[ps[n]]))}
    IN  IF S = {} THEN 0 ELSE ps[CHOOSE n \in S : \A m \in S : n <= m]

\* The method that returns, the element it reads and the name returned.
ResolveName(b) ==
    LET logo == LogoImg(b)
        img == AltMatch(b)
        p == AnchorMatch(b)
    IN  IF logo # 0 /\ "title" \in b.elems[logo].attrs
        THEN [method |-> 1, elem |-> logo, name |-> b.elems[logo].title]
        ELSE IF img # 0
        THEN [method |-> 2, elem |-> img, name |-> b.elems[img].alt]
        ELSE IF p # 0
        THEN [method |-> 3, elem |-> p, name |-> AnchorName(b.elems[p])]
        ELSE [method |-> 4, elem |-> 0, name |-> Unknown]

\* A variant of the identifier that tries the alt texts before the logo
\* title.  It is not the code's order of lines 118-127.
alt_before_logo(b) ==
    IF AltMatch(b) # 0 THEN b.elems[AltMatch(b)].alt ELSE ResolveName(b).name

extract_bookmaker_name(b) == ResolveName(b).name

-----------------------------------------------------------------------------
(* parse_market_odds: selectors and field normalisation *)

BorderBlackBorders == <<"b","o","r","d","e","r","-","b","l","a","c","k","-","b","o","r","d","e","r","s">>
BorderBlackBordersFlexH9 == <<"b","o","r","d","e","r","-","b","l","a","c","k","-","b","o","r","d","e","r","s"," ","f","l","e","x"," ","h","-","9">>
FlexCenter == <<"f","l","e","x","-","c","e","n","t","e","r">>
FlexCol == <<"f","l","e","x","-","c","o","l">>
FontBold == <<"f","o","n","t","-","b","o","l","d">>

\* soup.find_all("div", class_=re.compile(r"border-black-borders"))
PrimaryBlocks(d) ==
    Ascending({n \in 1..Len(d) : ClassSearch(d[n].class, BorderBlackBorders)})

\* soup.find_all("div", class_=re.compile(r"^border-black-borders flex h-9"))
FallbackBlocks(d) ==
    Ascending({n \in 1..Len(d) : ClassStartsWith(d[n].class, BorderBlackBordersFlexH9)})

\* the two tiers of block discovery
DiscoveredBlocks(d) ==
    IF PrimaryBlocks(d) # <<>> THEN PrimaryBlocks(d) ELSE FallbackBlocks(d)

\* get_text(strip=True): the stripped strings of the element, joined
GetText(el) ==
    Concat([n \in 1..Len(el.anchors) |-> Strip(el.anchors[n])]) \o Strip(el.text)

\* block.find_all("div", class_=re.compile(r"flex-center.*flex-col.*font-bold"))
PrimaryFields(b) ==
    Ascending({n \in 1..Len(b.elems) :
                  /\ IsDiv(b.elems[n])
                  /\ ClassSearchInOrder(b.elems[n].class, FlexCenter, FlexCol, FontBold)})

\* re.search(r"[\d.+-]", text)
LooksLikeOdds(text) ==
    \E n \in 1..Len(text) : text[n] \in Digits \cup {".", "+", "-"}

\* the height-content paragraphs, filtered to those that look like odds
FallbackFields(b) ==
    LET ps == HeightContentPs(b)
    IN  SelectSeq(ps, LAMBDA n : LooksLikeOdds(GetText(b.elems[n])))

\* odds_blocks after both tiers, as indices into the block's elements
OddsBlocks(b, labels) ==
    IF Len(PrimaryFields(b)) < Len(labels)
    THEN FallbackFields(b)
    ELSE PrimaryFields(b)

IsDigitRun(t, from, to) ==
    /\ from <= to
    /\ \A n \in from..to : t[n] \in Digits

\* (\d+\.\d+)\1 matches at p with an integer part of a and a fraction of
\* b digits
RepeatAt(t, p, a, b) ==
    LET len == a + 1 + b
    IN  /\ p + 2 * len - 1 <= Len(t)
        /\ IsDigitRun(t, p, p + a - 1)
        /\ t[p + a] = "."
        /\ IsDigitRun(t, p + a + 1, p + a + b)
        /\ \A n \in 0..(len - 1) : t[p + len + n] = t[p + n]

\* The match the regex engine takes at p: the longest integer part, then
\* the longest fraction; <<>> when there is none.
RepeatMatch(t, p) ==
    LET M == {ab \in (1..Len(t)) \X (1..Len(t)) : RepeatAt(t, p, ab[1], ab[2])}
    IN  IF M = {} THEN <<>>
        ELSE CHOOSE ab \in M :
                 \A cd \in M : \/ cd[1] < ab[1]
                               \/ (cd[1] = ab[1] /\ cd[2] <= ab[2])

\* re.sub(r"(\d+\.\d+)\1", r"\1", value), scanning from p
RECURSIVE CollapseFrom(_, _)
CollapseFrom(t, p) ==
    IF p > Len(t) THEN <<>>
    ELSE LET m == RepeatMatch(t, p)
         IN  IF m = <<>>
             THEN <<t[p]>> \o CollapseFrom(t, p + 1)
             ELSE LET len == m[1] + 1 + m[2]
                  IN  SubSeq(t, p, p + len - 1) \o CollapseFrom(t, p + 2 * len)

CollapseRepeated(value) == CollapseFrom(value, 1)

\* A variant of the comparison that takes a target that is a prefix of the
\* name for the same bookmaker.  It is not the code's line 52.
other_unless_prefix(name, tgt) == ~OccursAt(Lower(name), Lower(tgt), 1)

\* bookmaker_name.lower() != target_bookmaker.lower()
OtherBookmaker(name, tgt) == Lower(name) # Lower(tgt)

\* `if target_bookmaker`: not None and not the empty string
TargetSet(tgt) == tgt # <<>> /\ tgt[1] # <<>>

\* `not bookmaker_name or bookmaker_name == "Unknown"`
Unidentified(name) == name = <<>> \/ name = Unknown

\* len(odds_blocks) < len(odds_labels)
Incomplete(fields, labels) == Len(fields) < Len(labels)

\* the position of label in odds_labels that the dict comprehension keeps
\* (the last one)
LabelIndex(labels, label) ==
    CHOOSE n \in 1..Len(labels) :
        labels[n] = label /\ \A m \in (n + 1)..Len(labels) : labels[m] # label

\* extracted_odds of lines 67-73
Record(b, name, labels, per) ==
    LET fields == OddsBlocks(b, labels)
        keys == {labels[n] : n \in 1..Len(labels)} \cup {"bookmaker_name", "period"}
    IN  [key \in keys |->
            IF key = "period" THEN per
            ELSE IF key = "bookmaker_name" THEN name
            ELSE CollapseRepeated(GetText(b.elems[fields[LabelIndex(labels, key)]]))]

-----------------------------------------------------------------------------
(* The documents the calls are given. *)

El(tag, class, attrs, title, alt, anchors, text) ==
    [tag |-> tag, class |-> class, attrs |-> attrs, title |-> title,
     alt |-> alt, anchors |-> anchors, text |-> text]

LogoTitled(title) == El("img", <<BookmakerLogo>>, {"title"}, title, <<>>, <<>>, <<>>)
LogoUntitled == El("img", <<BookmakerLogo>>, {}, <<>>, <<>>, <<>>, <<>>)
LogoTitledAlt(title, alt) ==
    El("img", <<BookmakerLogo>>, {"title", "alt"}, title, alt, <<>>, <<>>)
ImgAlt(alt) == El("img", <<>>, {"alt"}, <<>>, alt, <<>>, <<>>)
PLink(anchors) == El("p", <<HeightContent>>, {}, <<>>, <<>>, anchors, <<>>)
PText(text) == El("p", <<HeightContent, <<"p","l","-","4">>>>, {}, <<>>, <<>>, <<>>, text)
OddsDiv(text) ==
    El("div", <<FlexCenter, FlexCol, <<"g","a","p","-","1">>, FontBold>>, {}, <<>>, <<>>, <<>>, text)

\* the elements the identifier is tried on
IdentElems ==
    { LogoTitled(<<"B","e","t","3","6","5">>),
      LogoUntitled,
      LogoTitledAlt(<<>>, <<"u","n","i","b","e","t">>),
      ImgAlt(<<"b","w","i","n">>),
      ImgAlt(<<"A","r","s","e","n","a","l">>),
      PLink(<<<<" ","P","i","n","n","a","c","l","e"," ">>>>),
      PLink(<<<<"A","r","s","e","n","a","l">>, <<"b","e","t","3","6","5">>>>),
      PText(<<"1",".","5","0">>) }

\* the elements of a bookmaker block of a market page
FieldElems ==
    { LogoTitled(<<"B","e","t","3","6","5">>),
      PLink(<<<<"b","e","t","3","6","5">>>>),
      PLink(<<<<"P","i","n","n","a","c","l","e">>>>),
      PText(<<"1",".","5","0">>),
      PText(<<"N",".","A",".">>),
      PText(<<"L","i","v","e">>),
      PText(<<"+","1","5","0">>),
      OddsDiv(<<" ","2",".","5","0","2",".","5","0"," ">>) }

BlockClassBoth == <<BorderBlackBorders, <<"f","l","e","x">>, <<"h","-","9">>, <<"b","o","r","d","e","r","-","b">>>>
BlockClassPrimaryOnly == <<<<"f","l","e","x">>, <<"m","d",":","b","o","r","d","e","r","-","b","l","a","c","k","-","b","o","r","d","e","r","s">>>>
BlockClassNone == <<<<"f","l","e","x">>, <<"h","-","9">>>>

Block(class, elems) == [class |-> class, elems |-> elems]

\* the blocks of the documents with several blocks
RowBlocks ==
    { Block(BlockClassBoth, <<LogoTitled(<<"B","e","t","3","6","5">>), OddsDiv(<<"1",".","8","5">>), OddsDiv(<<"2",".","1","0">>)>>),
      Block(BlockClassPrimaryOnly, <<ImgAlt(<<"b","w","i","n">>), OddsDiv(<<"3",".","4","0","3",".","4","0">>)>>),
      Block(BlockClassBoth, <<PText(<<"L","i","v","e">>), OddsDiv(<<"1",".","8","5">>), OddsDiv(<<"2",".","1","0">>)>>),
      Block(BlockClassNone, <<LogoTitled(<<"B","e","t","3","6","5">>), OddsDiv(<<"1",".","8","5">>), OddsDiv(<<"2",".","1","0">>)>>),
      Block(BlockClassPrimaryOnly, <<LogoTitled(<<"b","e","t","3","6","5">>), PText(<<"1",".","5","0">>), PText(<<"2",".","7","5">>)>>),
      Block(BlockClassBoth, <<LogoTitled(<<>>), OddsDiv(<<"1",".","8","5">>), OddsDiv(<<"2",".","1","0">>)>>) }

\* one block of up to MaxElems elements
FieldBlocks == {Block(BlockClassBoth, es) : es \in SeqUpTo(MaxElems, FieldElems)}

LabelNames == <<"1", "X", "2", "odds_4", "odds_5">>

Labels == {SubSeq(LabelNames, 1, n) : n \in 1..MaxLabels}

\* target_bookmaker: None, the empty string, or a name
Targets == { <<>>, << <<>> >>, <<<<"B","E","T","3","6","5">>>>, <<<<"B","e","t","3","6">>>>, <<<<"b","w","i","n">>>> }

FullTime == <<"F","u","l","l","T","i","m","e">>

NoBlock == Block(<<>>, <<>>)

-----------------------------------------------------------------------------
(* parse_market_odds *)

IdleIdent == block = NoBlock /\ name_out = <<>>

IdleHistory ==
    /\ timestamps = <<>> /\ odds_values = <<>> /\ opening = <<>>
    /\ year = 0 /\ k = 0 /\ time_text = <<>> /\ formatted_time = <<>>
    /\ odds_history = <<>> /\ result = <<>>

IdleMarket ==
    /\ doc = <<>> /\ period = <<>> /\ odds_labels = <<>> /\ target = <<>>
    /\ blocks = <<>> /\ bi = 0 /\ bookmaker_name = <<>> /\ odds_data = <<>>

InitMarket ==
    /\ pc = "market"
    /\ \/ doc \in SeqUpTo(MaxBlocks, RowBlocks) /\ target \in Targets
       \/ doc \in {<<b>> : b \in FieldBlocks} /\ target \in Targets
    /\ period = FullTime
    /\ odds_labels \in Labels
    /\ blocks = <<>> /\ bi = 0 /\ bookmaker_name = <<>> /\ odds_data = <<>>
    /\ IdleIdent /\ IdleHistory

\* lines 31-44: block discovery; with no block found the call returns []
DiscoverBlocks ==
    /\ pc = "market"
    /\ blocks' = DiscoveredBlocks(doc)
    /\ bi' = 1
    /\ odds_data' = <<>>
    /\ pc' = IF blocks' = <<>> THEN "market_done" ELSE "market_for"
    /\ UNCHANGED <<doc, period, odds_labels, target, bookmaker_name, identVars, historyVars>>

CurrentBlock == doc[blocks[bi]]

\* line 47
ResolveBookmaker ==
    /\ pc = "market_for"
    /\ bi <= Len(blocks)
    /\ bookmaker_name' = extract_bookmaker_name(CurrentBlock)
    /\ pc' = "market_block"
    /\ UNCHANGED <<doc, period, odds_labels, target, blocks, bi, odds_data,
                   identVars, historyVars>>

\* `continue`, and the end of the loop body
NextBlock ==
    /\ bi' = bi + 1
    /\ pc' = "market_for"
    /\ UNCHANGED <<doc, period, odds_labels, target, blocks, bookmaker_name,
                   identVars, historyVars>>

\* lines 49-50: no bookmaker name
SkipUnidentified ==
    /\ pc = "market_block"
    /\ Unidentified(bookmaker_name)
    /\ UNCHANGED odds_data
    /\ NextBlock

\* lines 52-53: another bookmaker than the target
SkipOtherBookmaker ==
    /\ pc = "market_block"
    /\ ~Unidentified(bookmaker_name)
    /\ TargetSet(target)
    /\ OtherBookmaker(bookmaker_name, target[1])
    /\ UNCHANGED odds_data
    /\ NextBlock

\* the block passes the checks of lines 49-53
Passes ==
    /\ ~Unidentified(bookmaker_name)
    /\ ~(TargetSet(target) /\ OtherBookmaker(bookmaker_name, target[1]))

\* lines 55-65: fewer odds fields than labels
SkipIncomplete ==
    /\ pc = "market_block"
    /\ Passes
    /\ Incomplete(OddsBlocks(CurrentBlock, odds_labels), odds_labels)
    /\ UNCHANGED odds_data
    /\ NextBlock

\* lines 55-74: the block's record
EmitRecord ==
    /\ pc = "market_block"
    /\ Passes
    /\ ~Incomplete(OddsBlocks(CurrentBlock, odds_labels), odds_labels)
    /\ odds_data' = Append(odds_data,
                           Record(CurrentBlock, bookmaker_name, odds_labels, period))
    /\ NextBlock

\* lines 80-81
ReturnOdds ==
    /\ pc = "market_for"
    /\ bi > Len(blocks)
    /\ pc' = "market_done"
    /\ UNCHANGED <<marketVars, identVars, historyVars>>

NextMarket ==
    \/ DiscoverBlocks
    \/ ResolveBookmaker
    \/ SkipUnidentified
    \/ SkipOtherBookmaker
    \/ SkipIncomplete
    \/ EmitRecord
    \/ ReturnOdds

SpecMarket == InitMarket /\ [][NextMarket]_vars

-----------------------------------------------------------------------------
(* _extract_bookmaker_name, called on one block *)

IdentBlocks == {Block(BlockClassBoth, es) : es \in SeqUpTo(MaxElems, IdentElems)}

InitIdent ==
    /\ pc = "ident"
    /\ block \in IdentBlocks
    /\ name_out = <<>>
    /\ IdleMarket /\ IdleHistory

\* lines 118-142
Identify ==
    /\ pc = "ident"
    /\ name_out' = <<extract_bookmaker_name(block)>>
    /\ pc' = "ident_done"
    /\ UNCHANGED <<block, marketVars, historyVars>>

NextIdent == Identify

SpecIdent == InitIdent /\ [][NextIdent]_vars

-----------------------------------------------------------------------------
(* parse_odds_history_modal: datetime.strptime, isoformat and float *)

DigitChars == <<"0","1","2","3","4","5","6","7","8","9">>

DigitVal(c) == (CHOOSE n \in 1..10 : DigitChars[n] = c) - 1

\* int() of a run of digits
RECURSIVE Num(_)
Num(t) == IF t = <<>> THEN 0 ELSE 10 * Num(SubSeq(t, 1, Len(t) - 1)) + DigitVal(t[Len(t)])

\* "%0<width>d" % n
RECURSIVE Pad(_, _)
Pad(n, width) ==
    IF width = 0 THEN <<>> ELSE Pad(n \div 10, width - 1) \o <<DigitChars[(n % 10) + 1]>>

\* the abbreviated month names of %b, lower case
MonthNames ==
    << <<"j","a","n">>, <<"f","e","b">>, <<"m","a","r">>, <<"a","p","r">>, <<"m","a","y">>, <<"j","u","n">>,
       <<"j","u","l">>, <<"a","u","g">>, <<"s","e","p">>, <<"o","c","t">>, <<"n","o","v">>, <<"d","e","c">> >>

IsLeap(y) == (y % 4 = 0 /\ y % 100 # 0) \/ y % 400 = 0

DaysInMonth(y, m) ==
    IF m = 2 THEN (IF IsLeap(y) THEN 29 ELSE 28)
    ELSE IF m \in {4, 6, 9, 11} THEN 30 ELSE 31

\* the year strptime gives a date whose format has no year directive
DefaultYear == 1900

\* the first position from p on that holds no white space (\s+ is greedy)
SkipSpaces(s, p) ==
    IF p > Len(s) THEN p
    ELSE CHOOSE q \in p..(Len(s) + 1) :
             /\ \A n \in p..(q - 1) : IsSpace(s[n])
             /\ q <= Len(s) => ~IsSpace(s[q])

\* the number of characters, 1 or 2, that a numeric directive reads at p:
\* the two-digit alternatives of its regular expression come first
NumLen(s, p) == IF p + 1 <= Len(s) /\ s[p + 1] \in Digits THEN 2 ELSE 1

\* The places where "%d %b, %H:%M" reads the day (at 1), the month, the
\* comma, the hour, the colon and the minute.
TimePlaces(s) ==
    LET dl == NumLen(s, 1)
        mon == SkipSpaces(s, dl + 1)
        comma == mon + 3
        hour == SkipSpaces(s, comma + 1)
        hl == NumLen(s, hour)
        colon == hour + hl
        minute == colon + 1
    IN  [dl |-> dl, mon |-> mon, comma |-> comma, hour |-> hour, hl |-> hl,
         colon |-> colon, minute |-> minute, ml |-> Len(s) - minute + 1]

\* The text matches the regular expression of "%d %b, %H:%M" and nothing
\* remains after the minute.
TimeMatches(s) ==
    LET pl == TimePlaces(s)
    IN  /\ pl.ml \in 1..2
        /\ IsDigitRun(s, 1, pl.dl)
        /\ Num(SubSeq(s, 1, pl.dl)) \in 1..31
        /\ pl.mon > pl.dl + 1
        /\ \E m \in 1..12 : Lower(SubSeq(s, pl.mon, pl.mon + 2)) = MonthNames[m]
        /\ s[pl.comma] = ","
        /\ pl.hour > pl.comma + 1
        /\ IsDigitRun(s, pl.hour, pl.hour + pl.hl - 1)
        /\ Num(SubSeq(s, pl.hour, pl.hour + pl.hl - 1)) \in 0..23
        /\ s[pl.colon] = ":"
        /\ IsDigitRun(s, pl.minute, Len(s))
        /\ Num(SubSeq(s, pl.minute, Len(s))) \in 0..59

\* the day, month, hour and minute that the directives of the format read
TimeFields(s) ==
    LET pl == TimePlaces(s)
    IN  [day |-> Num(SubSeq(s, 1, pl.dl)),
         month |-> CHOOSE m \in 1..12 :
                       Lower(SubSeq(s, pl.mon, pl.mon + 2)) = MonthNames[m],
         hour |-> Num(SubSeq(s, pl.hour, pl.hour + pl.hl - 1)),
         minute |-> Num(SubSeq(s, pl.minute, Len(s)))]

\* datetime.strptime(text, "%d %b, %H:%M"): <<>> is ValueError
Strptime(s) ==
    IF ~TimeMatches(s) THEN <<>>
    ELSE LET f == TimeFields(s)
         IN  IF f.day > DaysInMonth(DefaultYear, f.month) THEN <<>>
             ELSE <<[year |-> DefaultYear, month |-> f.month, day |-> f.day,
                     hour |-> f.hour, minute |-> f.minute, second |-> 0]>>

\* dt.replace(year=y): <<>> is ValueError
ReplaceYear(dt, y) ==
    IF dt.day > DaysInMonth(y, dt.month) THEN <<>>
    ELSE <<[dt EXCEPT !.year = y]>>

\* dt.isoformat()
IsoFormat(dt) ==
    Pad(dt.year, 4) \o <<"-">> \o Pad(dt.month, 2) \o <<"-">> \o Pad(dt.day, 2)
    \o <<"T">> \o Pad(dt.hour, 2) \o <<":">> \o Pad(dt.minute, 2)
    \o <<":">> \o Pad(dt.second, 2)

\* lines 165-166 and 181-183: the timestamp of a row; <<>> is ValueError
FormattedTime(text, y) ==
    LET dt == Strptime(text)
    IN  IF dt = <<>> THEN <<>>
        ELSE LET at == ReplaceYear(dt[1], y)
             IN  IF at = <<>> THEN <<>> ELSE <<IsoFormat(at[1])>>

\* the end of the run of digits that starts at p (p - 1 when there is none)
DigitsEnd(s, p) ==
    CHOOSE q \in (p - 1)..Len(s) :
        /\ \A n \in p..q : s[n] \in Digits
        /\ q + 1 <= Len(s) => s[q + 1] \notin Digits

\* The places of a decimal literal [sign] digits [. digits] in the text:
\* the last character of the sign, of the integer part and of the fraction.
FloatPlaces(s) ==
    LET sg == IF Len(s) >= 1 /\ s[1] \in {"+", "-"} THEN 1 ELSE 0
        ie == DigitsEnd(s, sg + 1)
        dot == ie + 1 <= Len(s) /\ s[ie + 1] = "."
        fe == IF dot THEN DigitsEnd(s, ie + 2) ELSE ie
    IN  [sg |-> sg, ie |-> ie, dot |-> dot, fe |-> fe]

\* float() accepts the text: a decimal literal with at least one digit and
\* nothing after it.  (Exponents, underscores, inf and nan need characters
\* that the value texts of the model do not have.)
FloatMatches(s) ==
    LET pl == FloatPlaces(s)
    IN  /\ pl.fe = Len(s)
        /\ (pl.ie - pl.sg) + (IF pl.dot THEN pl.fe - pl.ie - 1 ELSE 0) >= 1

\* a decimal without trailing zeros in its fraction
RECURSIVE Reduced(_, _)
Reduced(mant, scale) ==
    IF scale > 0 /\ mant % 10 = 0 THEN Reduced(mant \div 10, scale - 1)
    ELSE [mant |-> mant, scale |-> scale]

\* float(text.strip()): <<>> is ValueError, else the number as
\* [neg, mant, scale], with the value (-1)^neg * mant / 10^scale
ParseFloat(raw) ==
    LET s == Strip(raw)
    IN  IF ~FloatMatches(s) THEN <<>>
        ELSE LET pl == FloatPlaces(s)
                 ip == SubSeq(s, pl.sg + 1, pl.ie)
                 fp == IF pl.dot THEN SubSeq(s, pl.ie + 2, pl.fe) ELSE <<>>
                 r == Reduced(Num(ip \o fp), Len(fp))
             IN  <<[neg |-> pl.sg = 1 /\ s[1] = "-" /\ r.mant # 0,
                    mant |-> r.mant, scale |-> r.scale]>>

-----------------------------------------------------------------------------
(* parse_odds_history_modal *)

\* texts of the timestamp elements of the history rows
TimeTexts == { <<"1","5"," ","M","a","r",","," ","1","4",":","3","0">>, <<"2","9"," ","F","e","b",","," ","0","9",":","0","5">>, <<" ","1"," ","j","a","n",","," "," ","7",":","5"," ">>, <<"T","o","d","a","y">> }

\* texts of the value elements of the history rows
ValueTexts == { <<"2",".","5","0">>, <<" ","1",".","8","5">>, <<"-">> }

\* texts of the timestamp element of the opening-odds region
OpeningTimeTexts == TimeTexts \cup { <<"3","1"," ","A","p","r",","," ","1","0",":","0","0">>, <<"2","8"," ","F","e","b",","," ","2","3",":","5","9">> }

\* texts of the value element of the opening-odds region
OpeningValueTexts == { <<"1",".","9","0">>, <<"n","/","a">> }

\* The opening-odds region: <<>> when select_one("div.mt-2.gap-1") finds
\* nothing, else the texts of its timestamp and value elements, each <<>>
\* when its select_one finds nothing.
Openings ==
    { <<>> } \cup
    { <<[ts |-> ts, val |-> val]>> :
        ts \in { <<>> } \cup { <<t>> : t \in OpeningTimeTexts },
        val \in { <<>> } \cup { <<v>> : v \in OpeningValueTexts } }

\* datetime.now(UTC).year
Years == {2023, 2024}

\* the dict returned by line 193
EmptyDict == [key \in {} |-> <<>>]

\* the dict returned by line 189
HistoryResult(history, opening_odds) ==
    [odds_history |-> history, opening_odds |-> opening_odds]

Entry(timestamp, odds) == [timestamp |-> timestamp, odds |-> odds]

InitHistory ==
    /\ pc = "history"
    /\ timestamps \in SeqUpTo(MaxRows, TimeTexts)
    /\ odds_values \in SeqUpTo(MaxRows, ValueTexts)
    /\ opening \in Openings
    /\ year \in Years
    /\ k = 1
    /\ time_text = <<>>
    /\ formatted_time = <<>>
    /\ odds_history = <<>>
    /\ result = EmptyDict
    /\ IdleMarket /\ IdleIdent

\* zip(timestamps, odds_values, strict=False) stops with the shorter list
ZipLen(ts, vs) == Min(Len(ts), Len(vs))

historyInputs == <<timestamps, odds_values, opening, year>>

\* line 193: the outer handler returns {}
ReturnEmpty ==
    /\ result' = EmptyDict
    /\ pc' = "history_done"
    /\ UNCHANGED <<historyInputs, k, time_text, formatted_time, odds_history>>
    /\ UNCHANGED <<marketVars, identVars>>

\* line 189
ReturnResult(opening_odds) ==
    /\ result' = HistoryResult(odds_history, opening_odds)
    /\ pc' = "history_done"
    /\ UNCHANGED <<historyInputs, k, time_text, formatted_time, odds_history>>
    /\ UNCHANGED <<marketVars, identVars>>

\* `continue`, and the end of the loop body
NextPair ==
    /\ k' = k + 1
    /\ pc' = "history"
    /\ UNCHANGED <<historyInputs, time_text, formatted_time, result>>
    /\ UNCHANGED <<marketVars, identVars>>

\* lines 162-163: the next pair of the zip
ReadPair ==
    /\ pc = "history"
    /\ k <= ZipLen(timestamps, odds_values)
    /\ time_text' = Strip(timestamps[k])
    /\ pc' = "history_time"
    /\ UNCHANGED <<historyInputs, k, formatted_time, odds_history, result>>
    /\ UNCHANGED <<marketVars, identVars>>

\* lines 164-169: the timestamp does not parse, the pair is skipped
PairBadTimestamp ==
    /\ pc = "history_time"
    /\ FormattedTime(time_text, year) = <<>>
    /\ UNCHANGED odds_history
    /\ NextPair

\* lines 165-166
PairTimestamp ==
    /\ pc = "history_time"
    /\ FormattedTime(time_text, year) # <<>>
    /\ formatted_time' = FormattedTime(time_text, year)[1]
    /\ pc' = "history_value"
    /\ UNCHANGED <<historyInputs, k, time_text, odds_history, result>>
    /\ UNCHANGED <<marketVars, identVars>>

\* line 171: float() raises ValueError outside the inner try; the outer
\* handler of line 191 catches it
PairBadValue ==
    /\ pc = "history_value"
    /\ ParseFloat(odds_values[k]) = <<>>
    /\ ReturnEmpty

\* line 171
PairAppend ==
    /\ pc = "history_value"
    /\ ParseFloat(odds_values[k]) # <<>>
    /\ odds_history' = Append(odds_history,
                              Entry(formatted_time, ParseFloat(odds_values[k])[1]))
    /\ NextPair

AfterZip == pc = "history" /\ k > ZipLen(timestamps, odds_values)

\* lines 174-175: opening_odds_block is None and select_one on it raises
\* AttributeError, which the outer handler catches
OpeningRegionMissing ==
    /\ AfterZip
    /\ opening = <<>>
    /\ ReturnEmpty

\* lines 174-179: a sub-element is missing
OpeningElementMissing ==
    /\ AfterZip
    /\ opening # <<>>
    /\ opening[1].ts = <<>> \/ opening[1].val = <<>>
    /\ ReturnResult(<<>>)

\* lines 174-181: both sub-elements are found
ReadOpening ==
    /\ AfterZip
    /\ opening # <<>>
    /\ opening[1].ts # <<>> /\ opening[1].val # <<>>
    /\ time_text' = Strip(opening[1].ts[1])
    /\ pc' = "history_opening"
    /\ UNCHANGED <<historyInputs, k, formatted_time, odds_history, result>>
    /\ UNCHANGED <<marketVars, identVars>>

\* lines 180-187: strptime or float raises ValueError
OpeningUnparsed ==
    /\ pc = "history_opening"
    /\ \/ FormattedTime(time_text, year) = <<>>
       \/ ParseFloat(opening[1].val[1]) = <<>>
    /\ ReturnResult(<<>>)

\* lines 180-185
OpeningParsed ==
    /\ pc = "history_opening"
    /\ FormattedTime(time_text, year) # <<>>
    /\ ParseFloat(opening[1].val[1]) # <<>>
    /\ ReturnResult(<<Entry(FormattedTime(time_text, year)[1],
                            ParseFloat(opening[1].val[1])[1])>>)

NextHistory ==
    \/ ReadPair
    \/ PairBadTimestamp
    \/ PairTimestamp
    \/ PairBadValue
    \/ PairAppend
    \/ OpeningRegionMissing
    \/ OpeningElementMissing
    \/ ReadOpening
    \/ OpeningUnparsed
    \/ OpeningParsed

SpecHistory == InitHistory /\ [][NextHistory]_vars

-----------------------------------------------------------------------------
(* The three entry points together. *)

Init == InitMarket \/ InitIdent \/ InitHistory

Next == NextMarket \/ NextIdent \/ NextHistory

Spec == Init /\ [][Next]_vars

-----------------------------------------------------------------------------
(* Properties of parse_odds_history_modal. *)

\* the history row j has a timestamp that parses, a value that parses
C_TimeParses(j) == FormattedTime(Strip(timestamps[j]), year) # <<>>
C_ValueParses(j) == ParseFloat(odds_values[j]) # <<>>

C_Pairs == 1..ZipLen(timestamps, odds_values)

\* the entry of the positional pair j
C_EntryOf(j) ==
    Entry(FormattedTime(Strip(timestamps[j]), year)[1], ParseFloat(odds_values[j])[1])

\* the entries of the pairs whose timestamp and value both parse, in order
C_HistoryOfRows ==
    LET good == Ascending({j \in C_Pairs : C_TimeParses(j) /\ C_ValueParses(j)})
    IN  [n \in 1..Len(good) |-> C_EntryOf(good[n])]

\* no pair has a timestamp that parses and a value that does not
C_NoBadValue == \A j \in C_Pairs : C_TimeParses(j) => C_ValueParses(j)

C_IsHistoryResult(r) == DOMAIN r = {"odds_history", "opening_odds"}

\* the opening-odds region is absent, or a sub-element is, or a text of it
\* does not parse
C1_OpeningInvalid ==
    \/ opening = <<>>
    \/ opening[1].ts = <<>>
    \/ opening[1].val = <<>>
    \/ FormattedTime(Strip(opening[1].ts[1]), year) = <<>>
    \/ ParseFloat(opening[1].val[1]) = <<>>

\* C1: when the opening-odds region is absent, or its timestamp or value
\* element is absent, or their text fails to parse, the result has
\* opening_odds = null and its odds_history is the sequence the history rows
\* produce (stated for rows that themselves produce a history: no value of
\* theirs fails to parse, and one of them at least gives an entry).
C1_OpeningFailureKeepsHistory ==
    (pc = "history_done" /\ C1_OpeningInvalid /\ C_NoBadValue /\ C_HistoryOfRows # <<>>)
        => /\ C_IsHistoryResult(result)
           /\ result.opening_odds = <<>>
           /\ result.odds_history = C_HistoryOfRows

\* C2: a pair whose timestamp or value fails to parse is the only one
\* omitted: odds_history holds every pair whose timestamp and value both
\* parse (stated for a modal that has its opening-odds region).
C2_OnlyFailingPairsOmitted ==
    (pc = "history_done" /\ opening # <<>>)
        => /\ C_IsHistoryResult(result)
           /\ result.odds_history = C_HistoryOfRows

\* C3: every value returned is a well-formed HistoryResult: it has an
\* odds_history sequence and an opening_odds that is null or an entry.
C3_WellFormedResult ==
    pc = "history_done"
        => /\ C_IsHistoryResult(result)
           /\ Len(result.opening_odds) <= 1

\* C6: with m timestamps and n values that all parse, odds_history has
\* min(m, n) entries and its k-th entry combines the k-th timestamp with
\* the k-th value (stated for lists of different, non-zero lengths).
C6_PositionalPairing ==
    (/\ pc = "history_done"
     /\ \A j \in 1..Len(timestamps) : FormattedTime(Strip(timestamps[j]), year) # <<>>
     /\ \A j \in 1..Len(odds_values) : ParseFloat(odds_values[j]) # <<>>
     /\ Len(timestamps) # Len(odds_values)
     /\ ZipLen(timestamps, odds_values) >= 1)
        => /\ C_IsHistoryResult(result)
           /\ Len(result.odds_history) = Min(Len(timestamps), Len(odds_values))
           /\ \A j \in 1..Len(result.odds_history) :
                  result.odds_history[j] = C_EntryOf(j)

\* the text has the form "D Mon, HH:MM" and names a day of year y
C7_ExistsIn(text, y) ==
    /\ TimeMatches(text)
    /\ TimeFields(text).day <= DaysInMonth(y, TimeFields(text).month)

\* Y-MM-DDTHH:MM:00 for the day and time the text names
C7_Stamp(text, y) ==
    LET f == TimeFields(text)
    IN  Pad(y, 4) \o <<"-">> \o Pad(f.month, 2) \o <<"-">> \o Pad(f.day, 2)
        \o <<"T">> \o Pad(f.hour, 2) \o <<":">> \o Pad(f.minute, 2)
        \o <<":", "0", "0">>

\* C7: a timestamp text "D Mon, HH:MM" that names a day and time of the
\* current year Y (29 Feb of a leap year included) yields Y-MM-DDTHH:MM:00,
\* in the history rows and in the opening-odds row (stated for a modal
\* whose region and elements are present and whose values parse).
C7_YearInferred ==
    (/\ pc = "history_done"
     /\ C_NoBadValue
     /\ opening # <<>>
     /\ opening[1].ts # <<>> /\ opening[1].val # <<>>
     /\ ParseFloat(opening[1].val[1]) # <<>>)
        => /\ C_IsHistoryResult(result)
           /\ C7_ExistsIn(Strip(opening[1].ts[1]), year)
                => /\ result.opening_odds # <<>>
                   /\ result.opening_odds[1].timestamp
                          = C7_Stamp(Strip(opening[1].ts[1]), year)
           /\ \A j \in C_Pairs :
                  C7_ExistsIn(Strip(timestamps[j]), year)
                      => \E n \in 1..Len(result.odds_history) :
                             result.odds_history[n].timestamp
                                 = C7_Stamp(Strip(timestamps[j]), year)

-----------------------------------------------------------------------------
(* Properties of parse_market_odds. *)

\* the conditions under which a block yields a record
C4_Qualifies(b) ==
    LET name == extract_bookmaker_name(b)
    IN  /\ name # <<>>
        /\ name # Unknown
        /\ (target # <<>> /\ target[1] # <<>>) => Lower(name) = Lower(target[1])
        /\ Len(OddsBlocks(b, odds_labels)) >= Len(odds_labels)

C4_Expected == SelectSeq(DiscoveredBlocks(doc), LAMBDA n : C4_Qualifies(doc[n]))

\* C4: the output is, in document order, exactly one record for each
\* discovered block whose name is non-empty and not "Unknown", equals the
\* target ignoring case when a (non-empty) target is given, and whose
\* discovered odds fields are at least as many as the labels; every record
\* carries a value for every requested label.
C4_ExactlyQualifyingBlocks ==
    pc = "market_done"
        => /\ Len(odds_data) = Len(C4_Expected)
           /\ \A j \in 1..Len(odds_data) :
                  /\ odds_data[j] = Record(doc[C4_Expected[j]],
                                           extract_bookmaker_name(doc[C4_Expected[j]]),
                                           odds_labels, period)
                  /\ \A n \in 1..Len(odds_labels) : odds_labels[n] \in DOMAIN odds_data[j]

\* two blocks were discovered, a target is given, one block was kept and
\* the other one left out
C4_Witness ==
    /\ pc = "market_done"
    /\ Len(blocks) = 2
    /\ Len(odds_data) = 1
    /\ target # <<>> /\ target[1] # <<>>

\* C8: the fallback block pattern is broader than the primary one: it matches
\* every element the primary matches; and a document that neither pattern
\* matches yields an empty sequence.
C8_FallbackBroader ==
    pc # "market"
        => /\ \A n \in 1..Len(doc) :
                  ClassSearch(doc[n].class, BorderBlackBorders)
                      => ClassStartsWith(doc[n].class, BorderBlackBordersFlexH9)
           /\ (PrimaryBlocks(doc) = <<>> /\ FallbackBlocks(doc) = <<>>)
                  => (pc = "market_done" /\ odds_data = <<>>)

\* the text holds a digit or a sign character
C9_DigitOrSign(text) == \E n \in 1..Len(text) : text[n] \in Digits \cup {"+", "-"}

\* the fields the claim gives a block
C9_Fields(b) ==
    IF Len(PrimaryFields(b)) < Len(odds_labels)
    THEN SelectSeq(HeightContentPs(b), LAMBDA n : C9_DigitOrSign(GetText(b.elems[n])))
    ELSE PrimaryFields(b)

\* a document of one block has given one record
C_OneRecord == pc = "market_done" /\ Len(blocks) = 1 /\ Len(odds_data) = 1

\* C9: the fallback field discovery is used exactly when the primary pattern
\* finds fewer than len(odds_labels) elements, and its fields are the
\* height-content paragraphs whose trimmed text holds a digit or a sign
\* character, so the labels of a record are bound to such texts.
C9_FallbackFieldsHaveDigitOrSign ==
    C_OneRecord
        => LET b == doc[blocks[1]]
           IN  /\ OddsBlocks(b, odds_labels) = C9_Fields(b)
               /\ \A n \in 1..Len(odds_labels) :
                      odds_data[1][odds_labels[n]]
                          = CollapseRepeated(GetText(b.elems[C9_Fields(b)[n]]))

\* C10: no label of a record is bound to the element the bookmaker name
\* was resolved from.
C10_NameNotBoundAsOdds ==
    C_OneRecord
        => LET b == doc[blocks[1]]
           IN  \A n \in 1..Len(odds_labels) :
                   OddsBlocks(b, odds_labels)[n] # ResolveName(b).elem

-----------------------------------------------------------------------------
(* Properties of _extract_bookmaker_name. *)

C5_Min(S) == CHOOSE n \in S : \A m \in S : n <= m

C5_Logos(b) ==
    {n \in 1..Len(b.elems) : IsImg(b.elems[n]) /\ ClassIs(b.elems[n].class, BookmakerLogo)}

C5_AltPassing(b) ==
    {n \in 1..Len(b.elems) :
        /\ IsImg(b.elems[n]) /\ "alt" \in b.elems[n].attrs
        /\ looks_like_bookmaker(b.elems[n].alt)}

C5_Paragraphs(b) ==
    {n \in 1..Len(b.elems) : IsP(b.elems[n]) /\ ClassSearch(b.elems[n].class, HeightContent)}

\* The name the claim gives: the title of a logo image that has one, else
\* the first alt text that passes, else the first anchor text of a
\* height-content paragraph that passes, else "Unknown".
C5_Claimed(b) ==
    LET titled == {n \in C5_Logos(b) : "title" \in b.elems[n].attrs}
        passing == {n \in C5_Paragraphs(b) :
                       \E a \in 1..Len(b.elems[n].anchors) :
                           looks_like_bookmaker(Strip(b.elems[n].anchors[a]))}
    IN  IF titled # {} THEN b.elems[C5_Min(titled)].title
        ELSE IF C5_AltPassing(b) # {} THEN b.elems[C5_Min(C5_AltPassing(b))].alt
        ELSE IF passing # {}
        THEN LET el == b.elems[C5_Min(passing)]
             IN  Strip(el.anchors[C5_Min({a \in 1..Len(el.anchors) :
                                            looks_like_bookmaker(Strip(el.anchors[a]))})])
        ELSE Unknown

\* C5 as claimed: the identifier returns the result of the first strategy
\* that succeeds, where strategy 1 succeeds when a logo image with a title
\* exists and strategy 3 when an anchor of a height-content paragraph passes.
C5_FirstSuccessfulStrategy ==
    pc = "ident_done" => name_out[1] = C5_Claimed(block)

\* The name of the amended claim: strategy 1 reads the first logo image
\* only, strategy 3 the first anchor of each paragraph only.
C5_Amended(b) ==
    LET passing == {n \in C5_Paragraphs(b) :
                       /\ b.elems[n].anchors # <<>>
                       /\ looks_like_bookmaker(Strip(b.elems[n].anchors[1]))}
    IN  IF C5_Logos(b) # {} /\ "title" \in b.elems[C5_Min(C5_Logos(b))].attrs
        THEN b.elems[C5_Min(C5_Logos(b))].title
        ELSE IF C5_AltPassing(b) # {} THEN b.elems[C5_Min(C5_AltPassing(b))].alt
        ELSE IF passing # {} THEN Strip(b.elems[C5_Min(passing)].anchors[1])
        ELSE Unknown

\* C5, amended: the identifier returns the title of the first logo image
\* when that image has a title (even when an alt text passes), else the
\* first alt text that passes, else the text of the first anchor of the
\* first height-content paragraph whose first anchor passes, else "Unknown".
C5_FirstStrategyOfFirstElements ==
    pc = "ident_done" => name_out[1] = C5_Amended(block)

\* the logo title was returned although an alt text passes the heuristic
C5_Witness ==
    /\ pc = "ident_done"
    /\ ResolveName(block).method = 1
    /\ C5_AltPassing(block) # {}
    /\ name_out = <<block.elems[C5_Min(C5_Logos(block))].title>>
    /\ name_out[1] # <<>>

====
